---------------------------- MODULE Spec2Model ----------------------------
(***************************************************************************)
(* Model of the chaotic ECG cipher of brute_force_attack_comparison.py     *)
(* (logistic map, key derivation, the three cipher variants, the three     *)
(* brute-force attacks) and of ECGEncryptionGUI in ecg_gui_all.py: its     *)
(* logistic_map, its encryption dashboard, its real-time monitoring and    *)
(* its acquisition threads.                                                *)
(*                                                                         *)
(* Numbers.  The code computes in float64.  Here a real number is an       *)
(* integer count of 1/Scale units (fixed point); a product of two such     *)
(* numbers is floored back to the grid, as a float product is rounded.     *)
(* Signal samples are whole numbers.  A decrypted sample b/255*(max-min)   *)
(* +min is kept exactly, as the integer 255*sample.  A correlation is      *)
(* kept exactly, as the fraction cov^2/(var_x*var_y) of its square.        *)
(* Sequences are 1-based: index i here is index i-1 of the numpy array.    *)
(***************************************************************************)
EXTENDS Integers, Sequences, FiniteSets, TLC

VARIABLES
    variant,      \* which cipher: "classical", "biometric", "ml_enhanced"
    signal,       \* the plaintext signal handed to encrypt
    keyArg,       \* the (r, x0) arguments of encrypt: a key, or None
    castMode,     \* what the build's float->uint8 cast does out of range
    pc,           \* position of the cipher session
    enc,          \* the outcome of encrypt
    maskArg,      \* the xor_mask argument passed to biometric_decrypt
    dec,          \* the outcome of decrypt: its value is the samples times 255
    derived,      \* the outcome of extract_biometric_key(signal)
    lm,           \* one activation of logistic_map: arguments and locals
    lmResults,    \* the sequences returned by the calls made so far
    atk,          \* one activation of a brute_force_attack_* function
    trials,       \* log of that activation: the trials started, in order
    predictor,    \* the model, scaler, imputer arguments of the ML-Enhanced attack
    perm,         \* the permutation steps of encrypt and decrypt, on their own
    ml,           \* the trained key generator and the predict_key call on it
    gui,          \* the dashboard of ECGEncryptionGUI: widgets and cipher attributes
    mon,          \* its real-time monitoring: the running flag and the loop threads
    acq           \* its acquisition: ecg_data and the serial and test-data threads

cipherVars == <<variant, signal, keyArg, castMode, pc, enc, maskArg, dec, derived>>
lmVars == <<lm, lmResults>>
atkVars == <<atk, trials, predictor>>
permVars == <<perm>>
mlVars == <<ml>>
guiVars == <<gui, mon, acq>>
coreVars == <<cipherVars, lmVars, atkVars, permVars, mlVars>>
vars == <<cipherVars, lmVars, atkVars, permVars, mlVars, guiVars>>

\* Python's None for an optional key, and the absent xor_mask argument
NoKey == [given |-> FALSE, r |-> 0, x0 |-> 0]
NoMask == <<>>
\* a call that has not been made, one that raised, one that returned v
NotCalled == [status |-> "none"]
Raised == [status |-> "error"]
Returned(v) == [status |-> "ok", value |-> v]

----------------------------------------------------------------------------
(* Bounds of the model and constants of the program *)

\* fixed-point units per 1.0: three decimals, so that the grid values 0.1,
\* 0.9, 3.5 and 4.0 of the attacks are exact, as 1 - 0.1 = 0.9 is in float64
Scale == 10 * 10 * 10
MaxLen == 3       \* longest enumerated signal
MaxAbs == 2       \* enumerated samples range over -MaxAbs..MaxAbs
MaxCalls == 2     \* logistic_map calls followed in one behaviour
MaxN == 3         \* longest sequence asked of logistic_map
MaxPermLen == 3   \* longest vector permuted on its own

ByteMax == 255    \* scaling factor of the 8-bit range
ByteMod == 256    \* values a uint8 holds

\* n/d as a fixed-point number
Fp(n, d) == (n * Scale) \div d

Variants == {"classical", "biometric", "ml_enhanced"}
PermVariants == {"biometric", "ml_enhanced"}
CastModes == {"wrap", "saturate"}

----------------------------------------------------------------------------
(* Arithmetic helpers *)

Abs(a) == IF a < 0 THEN -a ELSE a

RECURSIVE SumSeq(_)
SumSeq(s) == IF s = <<>> THEN 0 ELSE Head(s) + SumSeq(Tail(s))

SeqMin(s) == CHOOSE m \in {s[i] : i \in DOMAIN s} : \A i \in DOMAIN s : m <= s[i]
SeqMax(s) == CHOOSE m \in {s[i] : i \in DOMAIN s} : \A i \in DOMAIN s : m >= s[i]

\* floor of the square root, by bisection on lo..hi (lo*lo <= v < hi*hi)
RECURSIVE IsqrtIn(_, _, _)
IsqrtIn(v, lo, hi) ==
    IF hi - lo <= 1 THEN lo
    ELSE LET mid == (lo + hi) \div 2
         IN  IF mid * mid <= v THEN IsqrtIn(v, mid, hi) ELSE IsqrtIn(v, lo, mid)
Isqrt(v) == IsqrtIn(v, 0, 46340)

\* bitwise exclusive or of two naturals
RECURSIVE Xor(_, _)
Xor(a, b) ==
    IF a = 0 THEN b
    ELSE IF b = 0 THEN a
    ELSE ((a + b) % 2) + 2 * Xor(a \div 2, b \div 2)

\* XorSeq losing the last element
XorSeqShort(a, b) == [i \in 1..(Len(a) - 1) |-> Xor(a[i], b[i])]

\* np.bitwise_xor of two arrays of one length
XorSeq(a, b) == [i \in DOMAIN a |-> Xor(a[i], b[i])]

\* the float -> uint8 cast of an integral value: defined on 0..255, and
\* outside it whatever the build does (x86 wraps, ARM saturates)
CastUint8(v, mode) ==
    IF v \in 0..ByteMax THEN v
    ELSE IF mode = "wrap" THEN v % ByteMod
    ELSE IF v < 0 THEN 0 ELSE ByteMax


----------------------------------------------------------------------------
(* logistic_map: brute_force_attack_comparison.py 12-18 *)

\* LogisticStep without the (1 - x) factor
LogisticStepLinear(r, x) == (r * x) \div Scale

\* one iteration, x = r * x * (1 - x): (r*x) first, then times (1-x)
LogisticStep(r, x) == (((r * x) \div Scale) * (Scale - x)) \div Scale

\* the n iterates after x0 (x0 itself is not part of the sequence)
RECURSIVE LogisticMap(_, _, _)
LogisticMap(x0, r, n) ==
    IF n = 0 THEN <<>>
    ELSE LET x == LogisticStep(r, x0)
         IN  <<x>> \o LogisticMap(x, r, n - 1)

\* the key domain the specification asks logistic_map to enforce:
\* r in (0, 4], x0 in (0, 1)
ValidKey(r, x0) == 0 < r /\ r <= 4 * Scale /\ 0 < x0 /\ x0 < Scale

----------------------------------------------------------------------------
(* extract_biometric_key: brute_force_attack_comparison.py 21-26 *)

\* np.mean(signal)
Mean(s) == (SumSeq(s) * Scale) \div Len(s)

\* np.std(signal): sqrt(n*sum(s^2) - sum(s)^2) / n
Std(s) ==
    LET n == Len(s)
        v == n * SumSeq([i \in DOMAIN s |-> s[i] * s[i]]) - SumSeq(s) * SumSeq(s)
    IN  Isqrt(v * Scale * Scale) \div n

\* C's fmod(a, b): the result has the sign of a
FMod(a, b) == IF a >= 0 THEN a % b ELSE -((-a) % b)

\* Python's a % b for b > 0: the result has the sign of b
PyMod(a, b) == a % b


ExtractBiometricKey(s) ==
    [given |-> TRUE,
     r  |-> Fp(36, 10) + PyMod(Std(s), Fp(4, 10)),
     x0 |-> Fp(1, 10) + PyMod(Mean(s), Fp(8, 10))]

----------------------------------------------------------------------------
(* the shared steps of the encrypt functions *)

\* ScaledSignal with np.round before the cast
ScaledRound(s) ==
    LET lo == SeqMin(s)
        hi == SeqMax(s)
    IN  IF hi > lo
        THEN [i \in DOMAIN s |-> (2 * (s[i] - lo) * ByteMax + (hi - lo)) \div (2 * (hi - lo))]
        ELSE [i \in DOMAIN s |-> 0]

\* ScaledSignal with the constant signal scaled to full range, not to zero
ScaledConstantFull(s) ==
    LET lo == SeqMin(s)
        hi == SeqMax(s)
    IN  IF hi > lo
        THEN [i \in DOMAIN s |-> ((s[i] - lo) * ByteMax) \div (hi - lo)]
        ELSE [i \in DOMAIN s |-> ByteMax]

\* ((signal - min) / (max - min) * 255).astype(np.uint8): the cast truncates;
\* np.zeros_like(signal) when max == min
ScaledSignal(s) ==
    LET lo == SeqMin(s)
        hi == SeqMax(s)
    IN  IF hi > lo
        THEN [i \in DOMAIN s |-> ((s[i] - lo) * ByteMax) \div (hi - lo)]
        ELSE [i \in DOMAIN s |-> 0]

\* XorMask with np.ceil for np.floor
XorMaskCeil(seq, mode) ==
    [i \in DOMAIN seq |-> CastUint8(-(((-seq[i]) * ByteMax) \div Scale), mode)]

\* np.floor(chaotic_seq * 255).astype(np.uint8)
XorMask(seq, mode) ==
    [i \in DOMAIN seq |-> CastUint8((seq[i] * ByteMax) \div Scale, mode)]

\* np.argsort(a): position k holds the index of the k-th smallest element,
\* equal elements in index order
Rank(a, i) ==
    1 + Cardinality({j \in DOMAIN a : a[j] < a[i] \/ (a[j] = a[i] /\ j < i)})
Argsort(a) == [k \in DOMAIN a |-> CHOOSE i \in DOMAIN a : Rank(a, i) = k]

\* p holds every index of its own domain
IsPermutation(p) == \A k \in DOMAIN p : \E i \in DOMAIN p : p[i] = k

\* a[p]: numpy indexing by an index array
Take(a, p) == [k \in DOMAIN p |-> a[p[k]]]

\* (b.astype(float) / 255.0) * (max - min) + min, times 255
Denormalize(b, range) ==
    [i \in DOMAIN b |-> b[i] * (range[2] - range[1]) + ByteMax * range[1]]

----------------------------------------------------------------------------
(* the cipher functions: brute_force_attack_comparison.py 46-104 *)

ClassicalChaoticEncrypt(s, r, x0, mode) ==
    LET chaotic_seq == LogisticMap(x0, r, Len(s))
        xor_mask == XorMask(chaotic_seq, mode)
    IN  [encrypted |-> XorSeq(ScaledSignal(s), xor_mask),
         range |-> <<SeqMin(s), SeqMax(s)>>]

ClassicalChaoticDecrypt(encrypted_signal, r, x0, signal_range, mode) ==
    LET chaotic_seq == LogisticMap(x0, r, Len(encrypted_signal))
        xor_mask == XorMask(chaotic_seq, mode)
    IN  Denormalize(XorSeq(encrypted_signal, xor_mask), signal_range)

\* BiometricEncrypt XORing with the mask before permuting
BiometricEncryptXorFirst(s, key, mode) ==
    LET k == IF ~key.given THEN ExtractBiometricKey(s) ELSE key
        chaotic_seq == LogisticMap(k.x0, k.r, Len(s))
        xor_mask == XorMask(chaotic_seq, mode)
        permutation == Argsort(chaotic_seq)
    IN  [encrypted |-> Take(XorSeq(ScaledSignal(s), xor_mask), permutation),
         permutation |-> permutation,
         xor_mask |-> xor_mask,
         range |-> <<SeqMin(s), SeqMax(s)>>,
         r |-> k.r,
         x0 |-> k.x0]

\* key.given is false when r or x0 is None
BiometricEncrypt(s, key, mode) ==
    LET k == IF ~key.given THEN ExtractBiometricKey(s) ELSE key
        chaotic_seq == LogisticMap(k.x0, k.r, Len(s))
        xor_mask == XorMask(chaotic_seq, mode)
        permutation == Argsort(chaotic_seq)
        permuted_signal == Take(ScaledSignal(s), permutation)
    IN  [encrypted |-> XorSeq(permuted_signal, xor_mask),
         permutation |-> permutation,
         xor_mask |-> xor_mask,
         range |-> <<SeqMin(s), SeqMax(s)>>,
         r |-> k.r,
         x0 |-> k.x0]

\* MlEnhancedEncrypt taking the predicted key whatever r and x0 are
MlEnhancedEncryptPredicted(s, predicted, key, mode) == BiometricEncrypt(s, predicted, mode)

\* predicted is what predict_key(model, scaler, imputer, signal) returns
MlEnhancedEncrypt(s, predicted, key, mode) ==
    LET k == IF ~key.given THEN predicted ELSE key
        chaotic_seq == LogisticMap(k.x0, k.r, Len(s))
        xor_mask == XorMask(chaotic_seq, mode)
        permutation == Argsort(chaotic_seq)
        permuted_signal == Take(ScaledSignal(s), permutation)
    IN  [encrypted |-> XorSeq(permuted_signal, xor_mask),
         permutation |-> permutation,
         xor_mask |-> xor_mask,
         range |-> <<SeqMin(s), SeqMax(s)>>,
         r |-> k.r,
         x0 |-> k.x0]

\* BiometricDecrypt indexing by the permutation, not by its inverse
BiometricDecryptNoInverse(encrypted_signal, permutation, xor_mask, signal_range) ==
    IF xor_mask = NoMask THEN Raised
    ELSE LET xor_reversed == XorSeq(encrypted_signal, xor_mask)
         IN  Returned(Denormalize(Take(xor_reversed, permutation), signal_range))

\* BiometricDecrypt with xor_mask optional, an absent mask read as all zero
BiometricDecryptDefaultMask(encrypted_signal, permutation, xor_mask, signal_range) ==
    LET mask == IF xor_mask = NoMask THEN [i \in DOMAIN encrypted_signal |-> 0]
                ELSE xor_mask
        xor_reversed == XorSeq(encrypted_signal, mask)
        inverse_perm == Argsort(permutation)
    IN  Returned(Denormalize(Take(xor_reversed, inverse_perm), signal_range))

\* xor_mask is a required argument: without it the call raises TypeError
BiometricDecrypt(encrypted_signal, permutation, xor_mask, signal_range) ==
    IF xor_mask = NoMask THEN Raised
    ELSE LET xor_reversed == XorSeq(encrypted_signal, xor_mask)
             inverse_perm == Argsort(permutation)
         IN  Returned(Denormalize(Take(xor_reversed, inverse_perm), signal_range))

----------------------------------------------------------------------------
(* Inputs of a cipher session *)

Key(r, x0) == [given |-> TRUE, r |-> r, x0 |-> x0]

\* keys inside the domain (0, 4] x (0, 1)
ValidKeys == {Key(Fp(37, 10), Fp(3, 10)), Key(Fp(4, 1), Fp(1, 2)), Key(Fp(1, 2), Fp(9, 10))}

\* keys outside it: r > 4, x0 = 1, r < 0
InvalidKeys == {Key(Fp(41, 10), Fp(1, 2)), Key(Fp(37, 10), Fp(1, 1)), Key(Fp(-1, 2), Fp(3, 10))}

Keys == ValidKeys \cup InvalidKeys

\* what the trained regressor may answer: nothing confines it to the domain
PredictedKeys == {Key(Fp(38, 10), Fp(4, 10)), Key(Fp(42, 10), Fp(6, 10))}

\* the signal of the specification's concrete scenario
ScenarioSignal == <<1, 2, 3, 4, 5>>

Samples == (-MaxAbs)..MaxAbs
Signals == UNION {[1..n -> Samples] : n \in 1..MaxLen} \cup {ScenarioSignal}

IsConstant(s) == SeqMin(s) = SeqMax(s)

----------------------------------------------------------------------------
(* The cipher session: a signal is encrypted, then decrypted *)

LmIdle == [pc |-> "idle"]
AtkIdle == [pc |-> "idle"]
PermIdle == [pc |-> "idle"]
MlIdle == [pc |-> "idle"]
SessionIdle == [pc |-> "idle"]
MonIdle == [pc |-> "idle"]
AcqIdle == [pc |-> "idle"]

\* no window of the GUI is open
GuiClosed == gui = SessionIdle /\ mon = MonIdle /\ acq = AcqIdle

Init ==
    /\ variant \in Variants
    /\ signal \in Signals
    /\ keyArg \in Keys \cup (IF variant \in PermVariants THEN {NoKey} ELSE {})
    /\ castMode \in CastModes
    /\ pc = "start"
    /\ enc = NotCalled
    /\ maskArg = NoMask
    /\ dec = NotCalled
    /\ derived = NotCalled
    /\ lm = LmIdle
    /\ lmResults = <<>>
    /\ GuiClosed
    /\ atk = AtkIdle
    /\ trials = <<>>
    /\ predictor = NoKey
    /\ perm = PermIdle
    /\ ml = MlIdle

\* r, x0 = extract_biometric_key(signal)
ExtractKey ==
    /\ pc = "start"
    /\ derived' = Returned(ExtractBiometricKey(signal))
    /\ pc' = "keyed"
    /\ UNCHANGED <<variant, signal, keyArg, castMode, enc, maskArg, dec, lmVars, atkVars, permVars, mlVars, guiVars>>

\* the encrypt call of the session's variant
Encrypt ==
    /\ pc = "start"
    /\ \E predicted \in PredictedKeys :
         enc' = Returned(
                  CASE variant = "classical" ->
                         ClassicalChaoticEncrypt(signal, keyArg.r, keyArg.x0, castMode)
                    [] variant = "biometric" ->
                         BiometricEncrypt(signal, keyArg, castMode)
                    [] variant = "ml_enhanced" ->
                         MlEnhancedEncrypt(signal, predicted, keyArg, castMode))
    /\ pc' = "encrypted"
    /\ UNCHANGED <<variant, signal, keyArg, castMode, maskArg, dec, derived, lmVars, atkVars, permVars, mlVars, guiVars>>

\* the matching decrypt call; the permutation variants' biometric_decrypt is
\* handed the mask encrypt returned, or no mask
Decrypt ==
    /\ pc = "encrypted"
    /\ \E m \in (IF variant \in PermVariants THEN {enc.value.xor_mask, NoMask} ELSE {NoMask}) :
         /\ maskArg' = m
         /\ dec' = IF variant = "classical"
                   THEN Returned(ClassicalChaoticDecrypt(enc.value.encrypted, keyArg.r,
                                     keyArg.x0, enc.value.range, castMode))
                   ELSE BiometricDecrypt(enc.value.encrypted, enc.value.permutation, m,
                                         enc.value.range)
    /\ pc' = "decrypted"
    /\ UNCHANGED <<variant, signal, keyArg, castMode, enc, derived, lmVars, atkVars, permVars, mlVars, guiVars>>

Next == ExtractKey \/ Encrypt \/ Decrypt

Spec == Init /\ [][Next]_vars

----------------------------------------------------------------------------
(* Claims about the cipher session (checked under Spec) *)

\* the key the session's encrypt call used
UsedKey == IF variant = "classical" THEN keyArg ELSE Key(enc.value.r, enc.value.x0)
Encrypted == pc \in {"encrypted", "decrypted"}

\* the XOR mask derived from the key alone
KeyMask == XorMask(LogisticMap(UsedKey.x0, UsedKey.r, Len(signal)), castMode)

\* the scaled vector encrypt worked on, recovered from what it returned
ScaledOf(e) ==
    IF variant = "classical" THEN XorSeq(e.encrypted, KeyMask)
    ELSE Take(XorSeq(e.encrypted, e.xor_mask), Argsort(e.permutation))

Range(s) == SeqMax(s) - SeqMin(s)

\* C1: round trip. Under a valid key, what decrypt returns from what encrypt
\* returned (same key, returned permutation, mask and range) has the length
\* of the signal and every sample within (max - min)/255 of the signal's.
C1_RoundTrip ==
    (pc = "decrypted" /\ dec.status = "ok" /\ ValidKey(UsedKey.r, UsedKey.x0))
        => /\ Len(dec.value) = Len(signal)
           /\ \A i \in DOMAIN signal :
                Abs(dec.value[i] - ByteMax * signal[i]) <= Range(signal)

\* a permuted round trip that lost precision on some sample
C1_Witness ==
    /\ pc = "decrypted" /\ dec.status = "ok" /\ ValidKey(UsedKey.r, UsedKey.x0)
    /\ variant = "biometric"
    /\ enc.value.permutation # [i \in DOMAIN signal |-> i]
    /\ \E i \in DOMAIN signal : dec.value[i] # ByteMax * signal[i]

\* C4 (as claimed): a key outside (0, 4] x (0, 1) makes encrypt and decrypt
\* fail, and no ciphertext or plaintext is returned.
C4_InvalidKeyRejected ==
    (Encrypted /\ ~ValidKey(UsedKey.r, UsedKey.x0))
        => /\ enc.status = "error"
           /\ dec.status # "ok"

C7_ConstantSignal ==
    (IsConstant(signal) /\ Encrypted /\ ValidKey(UsedKey.r, UsedKey.x0))
        => /\ enc.status = "ok"
           /\ enc.value.encrypted = KeyMask
           /\ (pc = "decrypted" /\ (variant = "classical" \/ maskArg # NoMask))
                  => /\ dec.status = "ok"
                     /\ dec.value = [i \in DOMAIN signal |-> ByteMax * signal[1]]

C7_Witness ==
    /\ IsConstant(signal) /\ Len(signal) > 1 /\ signal[1] # 0
    /\ pc = "decrypted" /\ dec.status = "ok" /\ variant = "biometric"
    /\ ValidKey(UsedKey.r, UsedKey.x0)

\* (a * 255 / d) rounded to the nearest integer
RoundedByte(a, d) == (2 * a * ByteMax + d) \div (2 * d)

\* C8 (as claimed): a non-constant signal is scaled by rounding to the nearest
\* byte; the scenario signal [1,2,3,4,5] is scaled to [0,64,128,191,255].
C8_ScaledIsRounded ==
    (Encrypted /\ ValidKey(UsedKey.r, UsedKey.x0) /\ ~IsConstant(signal))
        => /\ ScaledOf(enc.value) =
                [i \in DOMAIN signal |->
                    RoundedByte(signal[i] - SeqMin(signal), Range(signal))]
           /\ (signal = ScenarioSignal => ScaledOf(enc.value) = <<0, 64, 128, 191, 255>>)

\* C8 (amended): a non-constant signal is scaled by truncation,
\* scaled[i] = floor((signal[i] - min)/(max - min)*255); the scenario signal
\* [1,2,3,4,5] is scaled to [0,63,127,191,255].
C8_ScaledIsTruncated ==
    (Encrypted /\ ValidKey(UsedKey.r, UsedKey.x0) /\ ~IsConstant(signal))
        => /\ \A i \in DOMAIN signal :
                /\ ScaledOf(enc.value)[i] * Range(signal)
                       <= (signal[i] - SeqMin(signal)) * ByteMax
                /\ (signal[i] - SeqMin(signal)) * ByteMax
                       < (ScaledOf(enc.value)[i] + 1) * Range(signal)
           /\ (signal = ScenarioSignal => ScaledOf(enc.value) = <<0, 63, 127, 191, 255>>)

C8_Witness ==
    /\ Encrypted /\ variant = "classical" /\ signal = ScenarioSignal
    /\ keyArg = Key(Fp(37, 10), Fp(3, 10))

MatchingDecrypt == pc = "decrypted" /\ (variant = "classical" \/ maskArg # NoMask)

\* C13: for every variant, key and signal of length n > 0, the ciphertext
\* encrypt returns has length n (as have the permutation and the mask of the
\* permutation variants), and the matching decrypt returns n samples.
C13_LengthPreserved ==
    /\ Encrypted
          => /\ enc.status = "ok"
             /\ Len(enc.value.encrypted) = Len(signal)
             /\ variant \in PermVariants
                   => /\ Len(enc.value.permutation) = Len(signal)
                      /\ Len(enc.value.xor_mask) = Len(signal)
    /\ MatchingDecrypt
          => /\ dec.status = "ok"
             /\ Len(dec.value) = Len(signal)

\* sessions of every variant decrypted: the longest enumerated signal, and a
\* key outside the domain
C13_Witness ==
    /\ MatchingDecrypt
    /\ Len(signal) = Len(ScenarioSignal)
    /\ variant = "ml_enhanced"
    /\ ~ValidKey(UsedKey.r, UsedKey.x0)

\* the session of the specification's scenario: [1,2,3,4,5] under r = 3.7,
\* x0 = 0.3, Classical
ScenarioSession ==
    /\ variant = "classical"
    /\ signal = ScenarioSignal
    /\ keyArg = Key(Fp(37, 10), Fp(3, 10))

\* C16: in the scenario ([1,2,3,4,5], r = 3.7, x0 = 0.3) the first chaotic
\* iterate is 0.777, mask byte 0 is floor(0.777*255) = 198, and the first
\* byte of the Classical ciphertext is 0 XOR 198 = 198; the mask a
\* permutation variant returns under a valid key is floor(chaotic_seq*255).
C16_ScenarioFirstByte ==
    /\ (ScenarioSession /\ Encrypted)
          => /\ LogisticMap(keyArg.x0, keyArg.r, Len(signal))[1] = Fp(777, 1000)
             /\ KeyMask[1] = 198
             /\ ScaledSignal(signal)[1] = 0
             /\ enc.value.encrypted[1] = 198
    /\ (Encrypted /\ variant \in PermVariants /\ ValidKey(UsedKey.r, UsedKey.x0))
          => LET chaotic_seq == LogisticMap(UsedKey.x0, UsedKey.r, Len(signal))
             IN  \A i \in DOMAIN signal :
                    /\ enc.value.xor_mask[i] * Scale <= chaotic_seq[i] * 255
                    /\ chaotic_seq[i] * 255 < (enc.value.xor_mask[i] + 1) * Scale

\* the scenario's ciphertext has been produced
C16_Witness ==
    /\ ScenarioSession
    /\ pc = "encrypted"
    /\ enc.value.encrypted = <<198, 156, 166, 201, 21>>

\* C21: transform order of the permutation variants. Encryption returns
\* encrypted[i] = scaled[permutation[i]] XOR mask[i], the permutation sorting
\* the chaotic sequence and the mask being floor(chaotic sequence * 255) (cast
\* to a byte); decryption XORs the ciphertext with the mask, indexes the
\* result by argsort(permutation) and maps each byte b to b/255*(max-min)+min.
C21_TransformOrder ==
    (Encrypted /\ variant \in PermVariants)
        => LET e == enc.value
               n == Len(signal)
               chaotic_seq == LogisticMap(e.x0, e.r, n)
               scaled == ScaledSignal(signal)
               inverse == [k \in 1..n |-> CHOOSE i \in 1..n : e.permutation[i] = k]
           IN  /\ IsPermutation(e.permutation)
               /\ \A k \in 1..(n - 1) :
                     chaotic_seq[e.permutation[k]] <= chaotic_seq[e.permutation[k + 1]]
               /\ \A i \in 1..n :
                     /\ e.xor_mask[i] = CastUint8((chaotic_seq[i] * 255) \div Scale, castMode)
                     /\ e.encrypted[i] = Xor(scaled[e.permutation[i]], e.xor_mask[i])
               /\ (pc = "decrypted" /\ maskArg # NoMask)
                     => /\ dec.status = "ok"
                        /\ \A i \in 1..n :
                              dec.value[i] = Xor(e.encrypted[inverse[i]], maskArg[inverse[i]])
                                               * (e.range[2] - e.range[1]) + 255 * e.range[1]

\* a decrypted session whose permutation is neither the identity nor its own
\* inverse, on a signal with three different samples
C21_Witness ==
    /\ pc = "decrypted" /\ maskArg # NoMask
    /\ variant = "biometric"
    /\ Argsort(enc.value.permutation) # enc.value.permutation
    /\ Cardinality({signal[i] : i \in DOMAIN signal}) = 3

\* C22: ML-Enhanced has the cipher structure of Biometric. With both r and x0
\* supplied, what the session's encrypt returned (ciphertext, permutation,
\* mask, range, key) is what either function returns for that signal and
\* key, the key returned is the key supplied, and the result is the same
\* whatever the predictor would have answered.
C22_SameStructure ==
    (Encrypted /\ variant \in PermVariants /\ keyArg.given)
        => /\ enc.value = BiometricEncrypt(signal, keyArg, castMode)
           /\ \A predicted \in PredictedKeys :
                 enc.value = MlEnhancedEncrypt(signal, predicted, keyArg, castMode)
           /\ enc.value.r = keyArg.r
           /\ enc.value.x0 = keyArg.x0

\* an ML-Enhanced encryption under a supplied key that no predictor answers
\* and that is not the key derived from the signal
C22_Witness ==
    /\ pc = "encrypted"
    /\ variant = "ml_enhanced"
    /\ keyArg.given
    /\ keyArg \notin PredictedKeys
    /\ keyArg # ExtractBiometricKey(signal)
    /\ ~IsConstant(signal)

----------------------------------------------------------------------------
(* logistic_map as the loop it is: brute_force_attack_comparison.py 12-18 *)
(* (impl "module": sequence = [], append) and ecg_gui_all.py 692-699       *)
(* (impl "gui": sequence = np.zeros(n), sequence[i] = x)                   *)

Impls == {"module", "gui"}

\* arguments of the calls followed: the specification's determinism example,
\* the scenario key, the key whose first iterate is 1.0, a corner of the
\* attack grid, and a key outside the domain
LmKeys == {Key(Fp(3847, 1000), Fp(623, 1000)), Key(Fp(37, 10), Fp(3, 10)),
           Key(Fp(4, 1), Fp(1, 2)), Key(Fp(35, 10), Fp(1, 10)),
           Key(Fp(41, 10), Fp(1, 2))}

\* LmEnter with x0 itself as the first element of the output
LmEnterWithX0(impl, x0, r, n) ==
    [pc |-> "loop", impl |-> impl, x0 |-> x0, r |-> r, n |-> n,
     x |-> x0, i |-> 0,
     sequence |-> IF impl = "module" THEN <<x0>> ELSE [k \in 1..n |-> IF k = 1 THEN x0 ELSE 0]]

\* function entry: the locals are fresh in every activation
LmEnter(impl, x0, r, n) ==
    [pc |-> "loop", impl |-> impl, x0 |-> x0, r |-> r, n |-> n,
     x |-> x0, i |-> 0,
     sequence |-> IF impl = "module" THEN <<>> ELSE [k \in 1..n |-> 0]]

CipherIdle ==
    /\ variant = "classical"
    /\ signal = <<0>>
    /\ keyArg = NoKey
    /\ castMode = "wrap"
    /\ pc = "idle"
    /\ enc = NotCalled
    /\ maskArg = NoMask
    /\ dec = NotCalled
    /\ derived = NotCalled

LmInit ==
    /\ CipherIdle
    /\ atk = AtkIdle
    /\ trials = <<>>
    /\ predictor = NoKey
    /\ perm = PermIdle
    /\ ml = MlIdle
    /\ lm = LmIdle
    /\ lmResults = <<>>
    /\ GuiClosed

\* logistic_map(x0, r, n) is called
LmCall ==
    /\ lm.pc \in {"idle", "returned"}
    /\ Len(lmResults) < MaxCalls
    /\ \E impl \in Impls, k \in LmKeys, n \in 0..MaxN :
         lm' = LmEnter(impl, k.x0, k.r, n)
    /\ UNCHANGED <<lmResults, cipherVars, atkVars, permVars, mlVars, guiVars>>

\* one pass of the loop body
LmIterate ==
    /\ lm.pc = "loop"
    /\ lm.i < lm.n
    /\ LET x == LogisticStep(lm.r, lm.x)
       IN  lm' = [lm EXCEPT !.x = x,
                            !.i = lm.i + 1,
                            !.sequence = IF lm.impl = "module"
                                         THEN Append(lm.sequence, x)
                                         ELSE [lm.sequence EXCEPT ![lm.i + 1] = x]]
    /\ UNCHANGED <<lmResults, cipherVars, atkVars, permVars, mlVars, guiVars>>

\* return np.array(sequence)
LmReturn ==
    /\ lm.pc = "loop"
    /\ lm.i = lm.n
    /\ lm' = [lm EXCEPT !.pc = "returned"]
    /\ lmResults' = Append(lmResults,
                           [impl |-> lm.impl, x0 |-> lm.x0, r |-> lm.r, n |-> lm.n,
                            result |-> lm.sequence])
    /\ UNCHANGED <<cipherVars, atkVars, permVars, mlVars, guiVars>>

LmNext == LmCall \/ LmIterate \/ LmReturn

LmSpec == LmInit /\ [][LmNext]_vars

\* r * x * (1 - x) on the fixed-point grid
Iterate(r, x) == (((r * x) \div Scale) * (Scale - x)) \div Scale

\* C10: every logistic_map(x0, r, n) call returns exactly n values, the first
\* r*x0*(1-x0) (x0 itself excluded) and each next one r*x_t*(1-x_t); calls with
\* identical (x0, r, n) return identical sequences, whatever was called between.
C10_LogisticMapPure ==
    \A k \in DOMAIN lmResults :
        LET c == lmResults[k]
        IN  /\ Len(c.result) = c.n
            /\ c.n > 0 => c.result[1] = Iterate(c.r, c.x0)
            /\ \A t \in 1..(c.n - 1) : c.result[t + 1] = Iterate(c.r, c.result[t])
            /\ \A j \in DOMAIN lmResults :
                 (lmResults[j].x0 = c.x0 /\ lmResults[j].r = c.r /\ lmResults[j].n = c.n)
                     => lmResults[j].result = c.result

\* two calls with the same arguments, one per implementation, have returned
C10_Witness ==
    /\ Len(lmResults) >= 2
    /\ lmResults[1].n >= 2
    /\ lmResults[1].impl # lmResults[2].impl
    /\ lmResults[1].x0 = lmResults[2].x0
    /\ lmResults[1].r = lmResults[2].r
    /\ lmResults[1].n = lmResults[2].n
    /\ lmResults[1].result[1] # lmResults[1].x0

\* C11: bounded iterates. For a key in the domain (r in (0, 4], x0 in (0, 1),
\* the attack grid [3.5, 4.0] x [0.1, 0.9] included) every value logistic_map
\* has produced, at any point of the loop and in what it returns, lies in
\* [0, 1].
C11_BoundedIterates ==
    /\ (lm.pc # "idle" /\ ValidKey(lm.r, lm.x0))
          => /\ 0 <= lm.x /\ lm.x <= Scale
             /\ \A t \in DOMAIN lm.sequence :
                    0 <= lm.sequence[t] /\ lm.sequence[t] <= Scale
    /\ \A k \in DOMAIN lmResults :
          ValidKey(lmResults[k].r, lmResults[k].x0)
              => \A t \in DOMAIN lmResults[k].result :
                    0 <= lmResults[k].result[t] /\ lmResults[k].result[t] <= Scale

\* a returned sequence under r = 4.0 that touched both ends of [0, 1]
C11_Witness ==
    /\ lmResults # <<>>
    /\ lmResults[1].r = Fp(4, 1)
    /\ lmResults[1].n >= 2
    /\ lmResults[1].result[1] = Scale
    /\ lmResults[1].result[2] = 0

----------------------------------------------------------------------------
(* The permutation steps on their own: brute_force_attack_comparison.py    *)
(* 77-78 (biometric_encrypt) and 85-86 (biometric_decrypt)                 *)

\* InversePerm taking the permutation for its own inverse
InversePermSame(permutation) == permutation

\* inverse_perm = np.argsort(permutation)
InversePerm(permutation) == Argsort(permutation)

\* sequences sorted and vectors permuted: n values out of 0..n-1, so that
\* ties, and every permutation of the n indices, occur
PermInputs == UNION {[1..n -> 0..(n - 1)] : n \in 1..MaxPermLen}

PermInit ==
    /\ CipherIdle
    /\ lm = LmIdle
    /\ lmResults = <<>>
    /\ GuiClosed
    /\ atk = AtkIdle
    /\ trials = <<>>
    /\ predictor = NoKey
    /\ ml = MlIdle
    /\ \E chaotic_seq \in PermInputs, scaled_signal \in PermInputs :
         /\ Len(chaotic_seq) = Len(scaled_signal)
         /\ perm = [pc |-> "start", chaotic_seq |-> chaotic_seq,
                    scaled_signal |-> scaled_signal,
                    permutation |-> <<>>, permuted_signal |-> <<>>,
                    inverse_perm |-> <<>>, decrypted_scaled |-> <<>>]

\* permutation = np.argsort(chaotic_seq)
PermArgsort ==
    /\ perm.pc = "start"
    /\ perm' = [perm EXCEPT !.pc = "sorted",
                            !.permutation = Argsort(perm.chaotic_seq)]
    /\ UNCHANGED <<cipherVars, lmVars, atkVars, mlVars, guiVars>>

\* permuted_signal = scaled_signal[permutation]
PermApply ==
    /\ perm.pc = "sorted"
    /\ perm' = [perm EXCEPT !.pc = "permuted",
                            !.permuted_signal = Take(perm.scaled_signal, perm.permutation)]
    /\ UNCHANGED <<cipherVars, lmVars, atkVars, mlVars, guiVars>>

\* inverse_perm = np.argsort(permutation)
PermInvert ==
    /\ perm.pc = "permuted"
    /\ perm' = [perm EXCEPT !.pc = "inverted",
                            !.inverse_perm = InversePerm(perm.permutation)]
    /\ UNCHANGED <<cipherVars, lmVars, atkVars, mlVars, guiVars>>

\* decrypted_scaled = xor_reversed[inverse_perm], the XOR having cancelled
PermRestore ==
    /\ perm.pc = "inverted"
    /\ perm' = [perm EXCEPT !.pc = "restored",
                            !.decrypted_scaled = Take(perm.permuted_signal, perm.inverse_perm)]
    /\ UNCHANGED <<cipherVars, lmVars, atkVars, mlVars, guiVars>>

PermNext == PermArgsort \/ PermApply \/ PermInvert \/ PermRestore

PermSpec == PermInit /\ [][PermNext]_vars

\* C12: permutation invertibility. The argsort of any sequence, ties
\* included, is a permutation P of the indices (and every permutation is
\* one), and indexing a vector x by P and the result by argsort(P) gives
\* back x.
C12_PermutationInvertible ==
    /\ perm.pc \in {"sorted", "permuted", "inverted", "restored"}
          => (Len(perm.permutation) = Len(perm.chaotic_seq) /\ IsPermutation(perm.permutation))
    /\ perm.pc = "restored" => perm.decrypted_scaled = perm.scaled_signal

\* a tie in the sorted sequence, a permutation that is not its own inverse,
\* and a vector that the permutation changes
C12_Witness ==
    /\ perm.pc = "restored"
    /\ \E i, j \in DOMAIN perm.chaotic_seq : i # j /\ perm.chaotic_seq[i] = perm.chaotic_seq[j]
    /\ perm.inverse_perm # perm.permutation
    /\ perm.permuted_signal # perm.scaled_signal

----------------------------------------------------------------------------
(* The key generator: brute_force_attack_comparison.py 29-43 *)

\* PredictKey cutting or zero-padding the signal to the trained length
PredictKeyResized(n_features, s, predicted) == Returned(predicted)

\* predict_key(model, scaler, imputer, signal): imputer.transform([signal])
\* raises ValueError unless the signal has the n_features the imputer was
\* fitted on; otherwise model.predict(...)[0] is returned
PredictKey(n_features, s, predicted) ==
    IF Len(s) # n_features THEN Raised ELSE Returned(predicted)

MlInit ==
    /\ CipherIdle
    /\ lm = LmIdle
    /\ lmResults = <<>>
    /\ GuiClosed
    /\ atk = AtkIdle
    /\ trials = <<>>
    /\ predictor = NoKey
    /\ perm = PermIdle
    /\ ml = [pc |-> "untrained"]

\* model, scaler, imputer = train_key_generator(signals): signals is a
\* matrix of signals of one length D
MlTrain ==
    /\ ml.pc = "untrained"
    /\ \E D \in 1..MaxLen :
         ml' = [pc |-> "trained", n_features |-> D]
    /\ UNCHANGED <<cipherVars, lmVars, atkVars, permVars, guiVars>>

\* predict_key(model, scaler, imputer, signal)
MlPredict ==
    /\ ml.pc = "trained"
    /\ \E s \in Signals, predicted \in PredictedKeys :
         ml' = [pc |-> "predicted", n_features |-> ml.n_features, signal |-> s,
                result |-> PredictKey(ml.n_features, s, predicted)]
    /\ UNCHANGED <<cipherVars, lmVars, atkVars, permVars, guiVars>>

MlNext == MlTrain \/ MlPredict

MlSpec == MlInit /\ [][MlNext]_vars

\* C15: predict_key fails, returning no key, whenever the length of the
\* signal differs from the length D of the signals the model was trained
\* on (it neither truncates nor pads), and returns a key when they agree.
C15_DimensionMismatch ==
    ml.pc = "predicted"
        => (ml.result.status = "error") = (Len(ml.signal) # ml.n_features)

\* a call on a signal longer than the trained length, which is not 1
C15_Witness ==
    /\ ml.pc = "predicted"
    /\ ml.result = Raised
    /\ Len(ml.signal) > ml.n_features
    /\ ml.n_features > 1

----------------------------------------------------------------------------
(* The brute-force attacks: brute_force_attack_comparison.py 107-263 *)

\* a non-negative fraction num/den
Frac(n, d) == [num |-> n, den |-> d]

\* a/b > c/d for a, c >= 0 and b, d > 0, by continued fractions (no product
\* of the four numbers is formed)
RECURSIVE FracGT(_, _, _, _)
FracGT(a, b, c, d) ==
    LET qa == a \div b
        qc == c \div d
        ra == a % b
        rc == c % d
    IN  IF qa # qc THEN qa > qc
        ELSE IF ra = 0 THEN FALSE
        ELSE IF rc = 0 THEN TRUE
        ELSE FracGT(d, rc, b, ra)

\* np.corrcoef(x, y)[0, 1], squared: "raise" when the lengths differ
\* (ValueError), "nan" when either vector has no variance, else cov^2/(vx*vy)
Corrcoef2(x, y) ==
    IF Len(x) # Len(y) THEN [kind |-> "raise"]
    ELSE LET n == Len(x)
             sx == SumSeq(x)
             sy == SumSeq(y)
             cov == n * SumSeq([i \in DOMAIN x |-> x[i] * y[i]]) - sx * sy
             vx == n * SumSeq([i \in DOMAIN x |-> x[i] * x[i]]) - sx * sx
             vy == n * SumSeq([i \in DOMAIN y |-> y[i] * y[i]]) - sy * sy
         IN  IF vx = 0 \/ vy = 0 THEN [kind |-> "nan"]
             ELSE [kind |-> "value", sq |-> Frac(cov * cov, vx * vy)]

GridR == [classical |-> 20, biometric |-> 25, ml_enhanced |-> 30]
GridX == [classical |-> 10, biometric |-> 16, ml_enhanced |-> 20]
GridSize(v) == GridR[v] * GridX[v]
DefaultMaxAttempts == [classical |-> 200, biometric |-> 400, ml_enhanced |-> 600]

\* the success thresholds 0.7, 0.8, 0.85, squared
Threshold2 == [classical |-> Frac(49, 100), biometric |-> Frac(64, 100),
               ml_enhanced |-> Frac(7225, 10000)]

\* X0Range with the x0 values tried from 0.9 down to 0.1
X0RangeDescending(v, j) == Fp(9, 10) - (j * Fp(8, 10)) \div (GridX[v] - 1)

\* np.linspace(3.5, 4.0, R_n)[i] and np.linspace(0.1, 0.9, X_n)[j], i, j from 0
RRange(v, i) == Fp(35, 10) + (i * Fp(5, 10)) \div (GridR[v] - 1)
X0Range(v, j) == Fp(1, 10) + (j * Fp(8, 10)) \div (GridX[v] - 1)

\* TrialDecrypt indexing by the regenerated permutation, not by its inverse
TrialDecryptNoInverse(v, encrypted_signal, r, x0, signal_range, mode) ==
    IF v = "classical"
    THEN ClassicalChaoticDecrypt(encrypted_signal, r, x0, signal_range, mode)
    ELSE LET chaotic_seq == LogisticMap(x0, r, Len(encrypted_signal))
             permutation == Argsort(chaotic_seq)
             xor_mask == XorMask(chaotic_seq, mode)
             xor_reversed == XorSeq(encrypted_signal, xor_mask)
         IN  Denormalize(Take(xor_reversed, permutation), signal_range)

\* TrialDecrypt with the ML-Enhanced trial undoing the XOR only
TrialDecryptMlXorOnly(v, encrypted_signal, r, x0, signal_range, mode) ==
    IF v \in {"classical", "ml_enhanced"}
    THEN ClassicalChaoticDecrypt(encrypted_signal, r, x0, signal_range, mode)
    ELSE LET chaotic_seq == LogisticMap(x0, r, Len(encrypted_signal))
             permutation == Argsort(chaotic_seq)
             xor_mask == XorMask(chaotic_seq, mode)
             xor_reversed == XorSeq(encrypted_signal, xor_mask)
             inverse_perm == Argsort(permutation)
         IN  Denormalize(Take(xor_reversed, inverse_perm), signal_range)

\* the body of the try block up to the candidate reconstruction
TrialDecrypt(v, encrypted_signal, r, x0, signal_range, mode) ==
    IF v = "classical"
    THEN ClassicalChaoticDecrypt(encrypted_signal, r, x0, signal_range, mode)
    ELSE LET chaotic_seq == LogisticMap(x0, r, Len(encrypted_signal))
             permutation == Argsort(chaotic_seq)
             xor_mask == XorMask(chaotic_seq, mode)
             xor_reversed == XorSeq(encrypted_signal, xor_mask)
             inverse_perm == Argsort(permutation)
         IN  Denormalize(Take(xor_reversed, inverse_perm), signal_range)

\* SuccessRate capped against the budget instead of the grid size
SuccessRateOfBudget(v, attempts, max_attempts) ==
    IF attempts < max_attempts THEN Frac(attempts, GridSize(v)) ELSE Frac(1, 1)

\* SuccessRate as the share of the budget spent
SuccessRatePerBudget(v, attempts, max_attempts) == Frac(attempts, max_attempts)

\* attempts / grid_size if attempts < grid_size else 1.0
SuccessRate(v, attempts, max_attempts) ==
    IF attempts < GridSize(v) THEN Frac(attempts, GridSize(v)) ELSE Frac(1, 1)

\* BetterMatch letting a later trial of equal correlation take over
BetterOrEqualMatch(correlation, best_match) ==
    /\ correlation.kind = "value"
    /\ ~FracGT(best_match.num, best_match.den, correlation.sq.num, correlation.sq.den)

\* if abs(correlation) > best_match: false for NaN
BetterMatch(correlation, best_match) ==
    /\ correlation.kind = "value"
    /\ FracGT(correlation.sq.num, correlation.sq.den, best_match.num, best_match.den)

\* AboveThreshold taking an undefined correlation for a match
AboveThresholdOrUndefined(correlation, v) ==
    \/ correlation.kind = "nan"
    \/ /\ correlation.kind = "value"
       /\ FracGT(correlation.sq.num, correlation.sq.den, Threshold2[v].num, Threshold2[v].den)

\* AboveThreshold with the Classical threshold in every variant
AboveThresholdLowest(correlation, v) ==
    /\ correlation.kind = "value"
    /\ FracGT(correlation.sq.num, correlation.sq.den,
              Threshold2["classical"].num, Threshold2["classical"].den)

\* if abs(correlation) > 0.7 (0.8, 0.85): false for NaN
AboveThreshold(correlation, v) ==
    /\ correlation.kind = "value"
    /\ FracGT(correlation.sq.num, correlation.sq.den, Threshold2[v].num, Threshold2[v].den)

\* AtkEnter with attempts counted from 1
AtkEnterFromOne(v, encrypted_signal, original_signal, signal_range, max_attempts) ==
    [pc |-> "loop", variant |-> v,
     encrypted_signal |-> encrypted_signal,
     original_signal |-> original_signal,
     signal_range |-> signal_range,
     max_attempts |-> max_attempts,
     i |-> 0, j |-> 0,
     attempts |-> 1, success |-> FALSE,
     best_match |-> Frac(0, 1), best_params |-> NoKey,
     raised |-> 0, result |-> NotCalled]

\* function entry
AtkEnter(v, encrypted_signal, original_signal, signal_range, max_attempts) ==
    [pc |-> "loop", variant |-> v,
     encrypted_signal |-> encrypted_signal,
     original_signal |-> original_signal,
     signal_range |-> signal_range,
     max_attempts |-> max_attempts,
     i |-> 0, j |-> 0,
     attempts |-> 0, success |-> FALSE,
     best_match |-> Frac(0, 1), best_params |-> NoKey,
     raised |-> 0, result |-> NotCalled]

\* signals attacked: two samples, the scenario signal, a longer one
AtkSignals == {<<0, 1>>, ScenarioSignal, <<0, 1, 0, 0, 1, 1, 0, 1>>}

\* keys the attacked ciphertexts were made with: the scenario key and the
\* last point of every grid
AtkKeys == {Key(Fp(37, 10), Fp(3, 10)), Key(Fp(4, 1), Fp(9, 10))}

\* what is passed as original_signal: the plaintext, a constant signal of its
\* length (every correlation undefined), the plaintext short of its last
\* sample (every np.corrcoef raises)
Originals(s) ==
    {s, [i \in DOMAIN s |-> s[1]], SubSeq(s, 1, Len(s) - 1)}

\* what is passed as model, scaler, imputer: a predictor, named here by the
\* key it answers; the other attacks have no such parameters
Predictors(v) == IF v = "ml_enhanced" THEN PredictedKeys ELSE {NoKey}

\* budgets: none at all, one trial, a row and one trial, the default (the
\* whole grid), more than the grid
MaxAttemptsInputs(v) ==
    {-1, 0, 1, GridX[v] + 1, DefaultMaxAttempts[v], DefaultMaxAttempts[v] + 1}

\* a ciphertext that is not the encryption of the signal it is compared
\* with: the mask of the third grid point with every byte flipped in the same
\* bits, so that the third trial reconstructs a constant vector
ForeignCiphertext(v) ==
    LET g == XorMask(LogisticMap(X0Range(v, 2), RRange(v, 0), Len(ScenarioSignal)), "wrap")
    IN  XorSeq(g, [i \in DOMAIN g |-> 7])

AtkInit ==
    /\ CipherIdle
    /\ lm = LmIdle
    /\ lmResults = <<>>
    /\ GuiClosed
    /\ perm = PermIdle
    /\ ml = MlIdle
    /\ trials = <<>>
    /\ \/ \E v \in Variants, s \in AtkSignals, k \in AtkKeys :
            \E o \in Originals(s), m \in MaxAttemptsInputs(v) :
              LET e == IF v = "classical"
                       THEN ClassicalChaoticEncrypt(s, k.r, k.x0, "wrap")
                       ELSE BiometricEncrypt(s, k, "wrap")
              IN  /\ atk = AtkEnter(v, e.encrypted, o, e.range, m)
                  /\ predictor \in Predictors(v)
       \/ \E v \in Variants :
            \E m \in MaxAttemptsInputs(v) :
              /\ atk = AtkEnter(v, ForeignCiphertext(v), ScenarioSignal,
                                <<SeqMin(ScenarioSignal), SeqMax(ScenarioSignal)>>, m)
              /\ predictor \in Predictors(v)

\* one pass of the inner loop body, with the breaks that follow it
AtkTrial ==
    /\ atk.pc = "loop"
    /\ LET v == atk.variant
           r == RRange(v, atk.i)
           x0 == X0Range(v, atk.j)
           attempts == atk.attempts + 1
           decrypted == TrialDecrypt(v, atk.encrypted_signal, r, x0, atk.signal_range, "wrap")
           correlation == Corrcoef2(atk.original_signal, decrypted)
           raised == correlation.kind = "raise"
           better == BetterMatch(correlation, atk.best_match)
           success == AboveThreshold(correlation, v)
           \* break out of the inner loop: not reached from the except branch
           innerBreak == ~raised /\ (success \/ attempts >= atk.max_attempts)
           innerOver == innerBreak \/ atk.j = GridX[v] - 1
           outerBreak == innerOver /\ (success \/ attempts >= atk.max_attempts)
           over == outerBreak \/ (innerOver /\ atk.i = GridR[v] - 1)
       IN  /\ atk' = [atk EXCEPT
                        !.attempts = attempts,
                        !.best_match = IF better THEN correlation.sq ELSE @,
                        !.best_params = IF better THEN Key(r, x0) ELSE @,
                        !.success = success,
                        !.raised = IF raised THEN @ + 1 ELSE @,
                        !.i = IF innerOver /\ ~over THEN @ + 1 ELSE @,
                        !.j = IF over THEN @ ELSE IF innerOver THEN 0 ELSE @ + 1,
                        !.pc = IF over THEN "exit" ELSE "loop"]
           /\ trials' = Append(trials, [i |-> atk.i, j |-> atk.j, r |-> r, x0 |-> x0,
                                        correlation |-> correlation])
    /\ UNCHANGED <<predictor, cipherVars, lmVars, permVars, mlVars, guiVars>>

\* the return statement
AtkReturn ==
    /\ atk.pc = "exit"
    /\ atk' = [atk EXCEPT
                 !.pc = "returned",
                 !.result = Returned(
                     [success |-> atk.success,
                      attempts |-> atk.attempts,
                      best_match |-> atk.best_match,
                      best_params |-> atk.best_params,
                      success_rate |-> SuccessRate(atk.variant, atk.attempts,
                                                   atk.max_attempts)])]
    /\ UNCHANGED <<trials, predictor, cipherVars, lmVars, permVars, mlVars, guiVars>>

AtkNext == AtkTrial \/ AtkReturn

AttackSpec == AtkInit /\ [][AtkNext]_vars

\* the function runs on its own thread of control and is never suspended
\* for good: a step that can be taken is taken.  This is WF_vars(AtkNext)
\* written out: AtkNext is enabled exactly while atk.pc is "loop" or "exit",
\* and every step that changes vars is an AtkNext step.
AtkFairness ==
    \/ []<>(atk.pc \notin {"loop", "exit"})
    \/ []<><<AtkNext>>_vars

AttackLiveSpec == AtkInit /\ [][AtkNext]_vars /\ AtkFairness

----------------------------------------------------------------------------
(* Claims about the attacks (checked under AttackSpec) *)

AtkReturned == atk.pc = "returned"
AtkResult == atk.result.value

\* C2 (as claimed): whatever the input, trials that raise included, the
\* attempts of the returned result never exceed max_attempts (>= 1).
C2_AttemptsWithinBudget ==
    (AtkReturned /\ atk.max_attempts >= 1) => AtkResult.attempts <= atk.max_attempts

C14_SuccessRateFormula ==
    AtkReturned
        => LET res == AtkResult
               grid == CASE atk.variant = "classical" -> 200
                         [] atk.variant = "biometric" -> 400
                         [] atk.variant = "ml_enhanced" -> 600
           IN  /\ res.success_rate.den > 0
               /\ IF res.attempts >= grid
                  THEN res.success_rate.num = res.success_rate.den
                  ELSE res.success_rate.num * grid = res.attempts * res.success_rate.den
               /\ 0 <= res.success_rate.num
               /\ res.success_rate.num <= res.success_rate.den
               /\ res.best_match.den > 0
               /\ 0 <= res.best_match.num
               /\ res.best_match.num <= res.best_match.den

\* an attack that stopped early, after several trials, on a correlation
\* strictly between its threshold and 1
C14_Witness ==
    /\ AtkReturned
    /\ AtkResult.success
    /\ AtkResult.best_match.num < AtkResult.best_match.den
    /\ AtkResult.attempts > 1
    /\ AtkResult.attempts < GridSize(atk.variant)

\* C17 (as claimed): early exit. While another grid point is still to be
\* evaluated, no trial has exceeded the threshold (success is not set) and
\* attempts has not reached max_attempts (>= 1).
C17_EarlyExit ==
    atk.pc = "loop"
        => /\ ~atk.success
           /\ atk.max_attempts >= 1 => atk.attempts < atk.max_attempts

\* |a| = |b| for two correlations kept as squares
FracEq(a, b) == ~FracGT(a.num, a.den, b.num, b.den) /\ ~FracGT(b.num, b.den, a.num, a.den)

\* the trials that were evaluated and had a defined correlation above 0
Scored == {k \in DOMAIN trials : /\ trials[k].correlation.kind = "value"
                                 /\ trials[k].correlation.sq.num > 0}

\* C18: when an attack returns, best_match is the largest |correlation| of
\* the trials evaluated with a defined correlation (0, with best_params None,
\* if none is above 0), and best_params is the key of the earliest trial, in
\* iteration order, that attains it.
C18_BestMatchIsMaximum ==
    AtkReturned
        => LET res == AtkResult
           IN  IF Scored = {}
               THEN res.best_match = Frac(0, 1) /\ res.best_params = NoKey
               ELSE \E k \in Scored :
                      /\ res.best_match = trials[k].correlation.sq
                      /\ res.best_params = Key(trials[k].r, trials[k].x0)
                      /\ \A m \in Scored :
                            /\ ~FracGT(trials[m].correlation.sq.num, trials[m].correlation.sq.den,
                                       res.best_match.num, res.best_match.den)
                            /\ (m < k => ~FracEq(trials[m].correlation.sq, res.best_match))

\* a search in which the best correlation was attained by two trials, the
\* first of them neither the first nor the last trial made
C18_Witness ==
    /\ AtkReturned
    /\ \E k, m \in Scored :
         /\ 1 < k /\ k < m
         /\ AtkResult.best_params = Key(trials[k].r, trials[k].x0)
         /\ FracEq(trials[k].correlation.sq, AtkResult.best_match)
         /\ FracEq(trials[m].correlation.sq, AtkResult.best_match)

\* the step is a trial whose correlation was undefined or whose evaluation
\* raised
UndefinedTrial ==
    /\ Len(trials') = Len(trials) + 1
    /\ trials'[Len(trials')].correlation.kind \in {"nan", "raise"}

LastGridPoint == atk.i = GridR[atk.variant] - 1 /\ atk.j = GridX[atk.variant] - 1

\* C19: a trial whose correlation is undefined (NaN) or whose evaluation
\* raises is counted in attempts, leaves best_match, best_params and success
\* as they were, and does not end the search: unless the budget is spent or
\* the grid is exhausted, the next grid point is up for evaluation.
C19_UndefinedTrialSkipped ==
    [][UndefinedTrial
         => /\ atk'.attempts = atk.attempts + 1
            /\ atk'.best_match = atk.best_match
            /\ atk'.best_params = atk.best_params
            /\ atk'.success = atk.success
            /\ atk'.pc = "exit" => (atk'.attempts >= atk.max_attempts \/ LastGridPoint)
            /\ atk'.pc = "loop"
                  => IF atk.j = GridX[atk.variant] - 1
                     THEN atk'.i = atk.i + 1 /\ atk'.j = 0
                     ELSE atk'.i = atk.i /\ atk'.j = atk.j + 1]_vars

\* a trial with an undefined correlation after a best match had been found,
\* and a trial evaluated after it
C19_Witness ==
    \E k \in DOMAIN trials :
        /\ 1 < k /\ k < Len(trials)
        /\ trials[k].correlation.kind = "nan"
        /\ trials[k - 1].correlation.kind = "value"
        /\ trials[k + 1].correlation.kind = "value"
        /\ atk.best_params # NoKey

\* the grid dimensions (R_n, X_n) the specification gives
Dims == [classical |-> <<20, 10>>, biometric |-> <<25, 16>>, ml_enhanced |-> <<30, 20>>]

\* C20: iteration order. The k-th trial started (k = 1..attempts) is on the
\* grid point (r_i, x0_j) with i = (k-1) div X_n and j = (k-1) mod X_n, r_i
\* and x0_j the i-th and j-th of R_n and X_n evenly spaced values from 3.5 to
\* 4.0 and from 0.1 to 0.9 ((R_n, X_n) = (20,10), (25,16), (30,20)); the
\* trials go up the grid, the newest trial is on a point none before it was
\* on, and attempts is the number of trials started.
C20_IterationOrder ==
    atk.pc # "idle"
        => LET R_n == Dims[atk.variant][1]
               X_n == Dims[atk.variant][2]
               n == Len(trials)
           IN  /\ atk.attempts = n
               /\ n <= R_n * X_n
               /\ \A k \in 1..n :
                     LET i == (k - 1) \div X_n
                         j == (k - 1) % X_n
                     IN  /\ trials[k].i = i /\ trials[k].j = j
                         /\ trials[k].r = Fp(35, 10) + (i * Fp(5, 10)) \div (R_n - 1)
                         /\ trials[k].x0 = Fp(1, 10) + (j * Fp(8, 10)) \div (X_n - 1)
                         /\ k < n => \/ trials[k].r < trials[k + 1].r
                                     \/ /\ trials[k].r = trials[k + 1].r
                                        /\ trials[k].x0 < trials[k + 1].x0
               /\ \A k \in 1..(n - 1) :
                     trials[k].r # trials[n].r \/ trials[k].x0 # trials[n].x0

\* a search that returned from the middle of a row that is not the first
C20_Witness ==
    /\ AtkReturned
    /\ atk.i >= 1
    /\ atk.j > 0 /\ atk.j < GridX[atk.variant] - 1
    /\ AtkResult.attempts = atk.i * GridX[atk.variant] + atk.j + 1

\* C23: in every attack result success is true exactly when best_match
\* exceeds the variant's threshold (0.7, 0.8, 0.85), and then best_params is
\* the key of the last trial made, grid point number attempts in iteration
\* order.
C23_SuccessIffAboveThreshold ==
    AtkReturned
        => LET res == AtkResult
               v == atk.variant
               thr == CASE v = "classical" -> Frac(7 * 7, 100)
                        [] v = "biometric" -> Frac(8 * 8, 100)
                        [] v = "ml_enhanced" -> Frac(85 * 85, 10000)
               last == res.attempts - 1
           IN  /\ res.success = FracGT(res.best_match.num, res.best_match.den, thr.num, thr.den)
               /\ res.success
                     => /\ res.best_params = Key(RRange(v, last \div GridX[v]),
                                                 X0Range(v, last % GridX[v]))
                        /\ res.best_params = Key(trials[Len(trials)].r, trials[Len(trials)].x0)
                        /\ res.best_match = trials[Len(trials)].correlation.sq

\* a success that replaced the best match of an earlier trial
C23_Witness ==
    /\ AtkReturned
    /\ AtkResult.success
    /\ \E k \in Scored : k < Len(trials)
    /\ atk.variant # "classical"

Min(a, b) == IF a < b THEN a ELSE b
Max(a, b) == IF a > b THEN a ELSE b

\* C24: every attack terminates, for every input and every integer
\* max_attempts (zero and negative included), with 1 <= attempts <= R_n*X_n;
\* and when no trial succeeded and none raised,
\* attempts = min(max(max_attempts, 1), R_n*X_n).
C24_Terminates ==
    /\ <>AtkReturned
    /\ [](AtkReturned
            => LET grid == Dims[atk.variant][1] * Dims[atk.variant][2]
               IN  /\ 1 <= AtkResult.attempts
                   /\ AtkResult.attempts <= grid
                   /\ (~AtkResult.success /\ atk.raised = 0)
                         => AtkResult.attempts = Min(Max(atk.max_attempts, 1), grid))

\* an attack given a negative budget that returned after one trial, which
\* had a defined correlation and was no success
C24_Witness ==
    /\ AtkReturned
    /\ atk.max_attempts < 0
    /\ AtkResult.attempts = 1
    /\ ~AtkResult.success
    /\ atk.raised = 0
    /\ AtkResult.best_params # NoKey

\* C26: brute_force_attack_ml_enhanced does not use its model, scaler and
\* imputer arguments and differs from brute_force_attack_biometric in grid
\* size (30x20), threshold (0.85) and default budget only: its k-th trial
\* is the Biometric trial on the ciphertext, plaintext and range at point k
\* of the 30x20 grid, whatever predictor was passed, and the result is
\* built from the trials as in every attack.
C26_PredictorUnused ==
    (atk.pc # "idle" /\ atk.variant = "ml_enhanced")
        => /\ predictor \in PredictedKeys
           /\ GridR["ml_enhanced"] = 30 /\ GridX["ml_enhanced"] = 20
           /\ Threshold2["ml_enhanced"] = Frac(85 * 85, 10000)
           /\ DefaultMaxAttempts["ml_enhanced"] = 600
           /\ trials # <<>>
                 => LET k == Len(trials)
                        r == Fp(35, 10) + (((k - 1) \div 20) * Fp(5, 10)) \div 29
                        x0 == Fp(1, 10) + (((k - 1) % 20) * Fp(8, 10)) \div 19
                    IN  trials[k].correlation =
                          Corrcoef2(atk.original_signal,
                                    TrialDecrypt("biometric", atk.encrypted_signal, r, x0,
                                                 atk.signal_range, "wrap"))
           /\ AtkReturned
                 => /\ AtkResult.success =
                         (trials[Len(trials)].correlation.kind = "value"
                          /\ FracGT(trials[Len(trials)].correlation.sq.num,
                                    trials[Len(trials)].correlation.sq.den, 85 * 85, 10000))
                    /\ AtkResult.attempts = Len(trials)

\* an ML-Enhanced attack that returned after several trials, handed the
\* predictor that answers a key outside the domain; the permutation of its
\* best trial is not the identity
C26_Witness ==
    /\ AtkReturned
    /\ atk.variant = "ml_enhanced"
    /\ predictor = Key(Fp(42, 10), Fp(6, 10))
    /\ AtkResult.attempts > 1
    /\ AtkResult.best_params # NoKey
    /\ Argsort(Argsort(LogisticMap(AtkResult.best_params.x0, AtkResult.best_params.r,
                                    Len(atk.encrypted_signal))))
         # [i \in DOMAIN atk.encrypted_signal |-> i]

----------------------------------------------------------------------------
(* The attack trial against the cipher session (checked under Spec) *)

\* C25: a trial whose candidate key is the key encrypt used regenerates the
\* permutation and the mask encrypt returned, and its reconstruction is what
\* biometric_decrypt returns from the returned permutation and mask; a
\* Classical trial with the true key reproduces what classical_chaotic_decrypt
\* returns.
C25_TrueKeyTrial ==
    MatchingDecrypt
        => LET e == enc.value
               chaotic_seq == LogisticMap(UsedKey.x0, UsedKey.r, Len(e.encrypted))
           IN  /\ dec.status = "ok"
               /\ dec.value = TrialDecrypt(variant, e.encrypted, UsedKey.r, UsedKey.x0,
                                           e.range, castMode)
               /\ variant \in PermVariants
                     => /\ Argsort(chaotic_seq) = e.permutation
                        /\ XorMask(chaotic_seq, castMode) = e.xor_mask

\* a decrypted session under the key derived from the signal, with a
\* permutation that is not its own inverse
C25_Witness ==
    /\ MatchingDecrypt
    /\ variant = "biometric"
    /\ keyArg = NoKey
    /\ Argsort(enc.value.permutation) # enc.value.permutation
    /\ \E i \in DOMAIN signal : dec.value[i] # ByteMax * signal[i]

----------------------------------------------------------------------------
(* The dashboard session of ECGEncryptionGUI: ecg_gui_all.py               *)
(* __init__ 46-52, the widgets 245-287, on_signal_selected 579-602,        *)
(* on_method_changed 604-635, extract_signal_features 636-667, the float   *)
(* ciphers 701-746, encrypt_signal 748-791, decrypt_signal 793-825.        *)
(* The ciphers add and subtract the chaotic sequence in float64; here the  *)
(* samples are fixed-point numbers and the sums are exact.  The combobox   *)
(* and the four parameter entries are read-only, so the widgets change     *)
(* through the handlers only.  Timing results and plots are not followed.  *)

\* Python's None, and an attribute holding an array
None == [status |-> "none"]
Array(v) == [status |-> "ok", value |-> v]
\* encryption_results = {}
EmptyResults == [status |-> "empty"]

Methods == {"Biometric", "ML-Enhanced"}

\* signals_data: the signals loaded at start-up, here three short ones
SignalsData ==
    << <<Fp(2, 10), Fp(9, 10), Fp(4, 10)>>,
       <<Fp(5, 10), Fp(3, 10)>>,
       <<Fp(1, 10), Fp(7, 10), Fp(3, 10)>> >>

\* units per 1.0 of a feature value: five decimals
FeatureScale == Scale * 100

\* extract_signal_features(signal): np.mean, np.std, the Shannon entropy of
\* the 256-bin histogram of the normalised signal and the number of peaks
\* above 0.5, as the code computes them for the signals of SignalsData
\* (0.5, 0.29439, 1.58496, 1; 0.4, 0.1, 1.0, 0; 0.36667, 0.24944, 1.58496, 1)
ExtractSignalFeatures(s) ==
    CASE s = SignalsData[1] ->
           [mean |-> 50000, std |-> 29439, entropy |-> 158496, peak_count |-> 1]
      [] s = SignalsData[2] ->
           [mean |-> 40000, std |-> 10000, entropy |-> 100000, peak_count |-> 0]
      [] s = SignalsData[3] ->
           [mean |-> 36667, std |-> 24944, entropy |-> 158496, peak_count |-> 1]

\* f"{v:.3f}" followed by float(): v, a number of 1/(Scale*FeatureScale),
\* rounded to three decimals
Format3(v) == (2 * v + FeatureScale) \div (2 * FeatureScale)

\* on_method_changed: the four parameter entries are recomputed from the
\* features of the selected signal, by the formula of the selected method
OnMethodChanged(g) ==
    LET features == ExtractSignalFeatures(SignalsData[g.current_signal_index + 1])
        one == FeatureScale
        biometric == g.encryption_method = "Biometric"
        r == IF biometric
             THEN Fp(3847, 1000) * one + Fp(1, 10) * features.mean
                    + Fp(5, 100) * features.std
             ELSE Fp(3847, 1000) * one + Fp(15, 100) * features.mean
                    + Fp(8, 100) * features.std + Fp(2, 100) * features.entropy
        x0 == IF biometric
              THEN Fp(623, 1000) * one + Fp(1, 100) * features.entropy
              ELSE Fp(623, 1000) * one + Fp(15, 1000) * features.entropy
                     + Fp(5, 1000) * features.peak_count * one
        alpha == IF biometric
                 THEN Fp(85, 100) * one
                 ELSE Fp(85, 100) * one + Fp(5, 100) * features.std
        eta == IF biometric
               THEN Fp(1, 100) * one
               ELSE Fp(1, 100) * one + Fp(2, 1000) * features.entropy
    IN  [g EXCEPT !.r_var = Format3(r), !.x0_var = Format3(x0),
                  !.alpha_var = Format3(alpha), !.eta_var = Format3(eta)]

\* chaotic_encrypt: permute by the argsort of the chaotic sequence, then add it
GuiChaoticEncrypt(s, r, x0) ==
    LET n == Len(s)
        chaotic_seq == LogisticMap(x0, r, n)
        perm_indices == Argsort(chaotic_seq)
        permuted_signal == Take(s, perm_indices)
    IN  [encrypted |-> [i \in 1..n |-> permuted_signal[i] + chaotic_seq[i]],
         perm_indices |-> perm_indices]

\* chaotic_decrypt: subtract the chaotic sequence, then undo the permutation
GuiChaoticDecrypt(encrypted_signal, r, x0, perm_indices) ==
    LET n == Len(encrypted_signal)
        chaotic_seq == LogisticMap(x0, r, n)
        decrypted == [i \in 1..n |-> encrypted_signal[i] - chaotic_seq[i]]
        inverse_perm == Argsort(perm_indices)
    IN  Take(decrypted, inverse_perm)

\* biometric_encrypt and biometric_decrypt of the GUI delegate
GuiBiometricEncrypt(s, r, x0) == GuiChaoticEncrypt(s, r, x0)
GuiBiometricDecrypt(encrypted_signal, r, x0, perm_indices) ==
    GuiChaoticDecrypt(encrypted_signal, r, x0, perm_indices)

\* np.sin on the fixed-point grid, by x - x^3/6: exact to the grid for the
\* arguments eta * i of the signals followed (below 0.1)
Sin(x) == x - ((((x * x) \div Scale) * x) \div Scale) \div 6

\* adaptive_seq = chaotic_seq * (1 + alpha * np.sin(eta * np.arange(n)))
AdaptiveSeq(chaotic_seq, alpha, eta) ==
    [i \in DOMAIN chaotic_seq |->
       (chaotic_seq[i] * (Scale + (alpha * Sin(eta * (i - 1))) \div Scale)) \div Scale]

\* values np.random.random(n) is followed through: 0, a half, just below 1
RandomLevels == {0, Scale \div 2, Scale - 1}

\* ml_enhanced_encrypt, random being the draw of np.random.random(n)
GuiMlEnhancedEncrypt(s, r, x0, alpha, eta, random) ==
    LET n == Len(s)
        chaotic_seq == LogisticMap(x0, r, n)
        ml_weights == [i \in 1..n |-> (alpha * chaotic_seq[i]) \div Scale
                                        + (eta * random[i]) \div Scale]
        perm_indices == Argsort(ml_weights)
        permuted_signal == Take(s, perm_indices)
        adaptive_seq == AdaptiveSeq(chaotic_seq, alpha, eta)
    IN  [encrypted |-> [i \in 1..n |-> permuted_signal[i] + adaptive_seq[i]],
         perm_indices |-> perm_indices]

\* ml_enhanced_decrypt
GuiMlEnhancedDecrypt(encrypted_signal, r, x0, alpha, eta, perm_indices) ==
    LET n == Len(encrypted_signal)
        chaotic_seq == LogisticMap(x0, r, n)
        adaptive_seq == AdaptiveSeq(chaotic_seq, alpha, eta)
        decrypted == [i \in 1..n |-> encrypted_signal[i] - adaptive_seq[i]]
        inverse_perm == Argsort(perm_indices)
    IN  Take(decrypted, inverse_perm)

\* a message box is shown: the last title, and the titles shown so far
ShowMessage(g, title) ==
    [g EXCEPT !.message = title, !.shown = g.shown \cup {title}]

\* __init__ and the widget defaults
GuiInit ==
    /\ CipherIdle
    /\ lm = LmIdle
    /\ lmResults = <<>>
    /\ atk = AtkIdle
    /\ trials = <<>>
    /\ predictor = NoKey
    /\ perm = PermIdle
    /\ ml = MlIdle
    /\ mon = MonIdle
    /\ acq = AcqIdle
    /\ gui = [current_signal_index |-> 0,
              encryption_method |-> "Biometric",
              r_var |-> Fp(3847, 1000), x0_var |-> Fp(623, 1000),
              alpha_var |-> Fp(85, 100), eta_var |-> Fp(1, 100),
              encrypted_signal |-> None,
              decrypted_signal |-> None,
              encryption_results |-> EmptyResults,
              message |-> "", shown |-> {}]

\* SelectionReset leaving decrypted_signal as it is
SelectionResetKeepsDecrypted(g, signal_num) ==
    [g EXCEPT !.current_signal_index = signal_num,
              !.encrypted_signal = None,
              !.encryption_results = EmptyResults]

\* on_signal_selected 587-591: the index is taken and the results are dropped
SelectionReset(g, signal_num) ==
    [g EXCEPT !.current_signal_index = signal_num,
              !.encrypted_signal = None,
              !.decrypted_signal = None,
              !.encryption_results = EmptyResults]

\* on_signal_selected: an entry "Signal k+1 (ID: ...)" of the combobox is picked
OnSignalSelected ==
    /\ \E signal_num \in 0..(Len(SignalsData) - 1) :
         gui' = OnMethodChanged(SelectionReset(gui, signal_num))
    /\ UNCHANGED <<mon, acq, coreVars>>

\* a radio button is clicked: the variable is set, then on_method_changed runs
MethodChanged ==
    /\ \E method \in Methods :
         gui' = OnMethodChanged([gui EXCEPT !.encryption_method = method])
    /\ UNCHANGED <<mon, acq, coreVars>>

\* encrypt_signal
EncryptSignal ==
    /\ LET s == SignalsData[gui.current_signal_index + 1]
           method == gui.encryption_method
           r == gui.r_var
           x0 == gui.x0_var
           alpha == gui.alpha_var
           eta == gui.eta_var
       IN  \E random \in [1..Len(s) -> RandomLevels] :
             LET out == IF method = "Biometric"
                        THEN GuiBiometricEncrypt(s, r, x0)
                        ELSE GuiMlEnhancedEncrypt(s, r, x0, alpha, eta, random)
             IN  gui' = ShowMessage(
                          [gui EXCEPT !.encrypted_signal = Array(out.encrypted),
                                      !.encryption_results =
                                          [status |-> "set", method |-> method,
                                           perm_indices |-> out.perm_indices,
                                           r |-> r, x0 |-> x0,
                                           alpha |-> alpha, eta |-> eta]],
                          "Encryption Complete")
    /\ UNCHANGED <<mon, acq, coreVars>>

\* DecryptWith reading the method and the parameters kept by encrypt_signal
DecryptWithStored(g) ==
    LET res == g.encryption_results
    IN  IF res.method = "Biometric"
        THEN GuiBiometricDecrypt(g.encrypted_signal.value, res.r, res.x0,
                                 res.perm_indices)
        ELSE GuiMlEnhancedDecrypt(g.encrypted_signal.value, res.r, res.x0,
                                  res.alpha, res.eta, res.perm_indices)

\* decrypt_signal 800-813: the method and the parameters are read from the
\* widgets, the permutation from encryption_results
DecryptWith(g) ==
    LET method == g.encryption_method
        r == g.r_var
        x0 == g.x0_var
        alpha == g.alpha_var
        eta == g.eta_var
        perm_indices == g.encryption_results.perm_indices
    IN  IF method = "Biometric"
        THEN GuiBiometricDecrypt(g.encrypted_signal.value, r, x0, perm_indices)
        ELSE GuiMlEnhancedDecrypt(g.encrypted_signal.value, r, x0, alpha, eta,
                                  perm_indices)

\* decrypt_signal
DecryptSignal ==
    /\ IF gui.encrypted_signal = None
       THEN gui' = ShowMessage(gui, "No Encrypted Signal")
       ELSE gui' = ShowMessage([gui EXCEPT !.decrypted_signal = Array(DecryptWith(gui))],
                               "Decryption Complete")
    /\ UNCHANGED <<mon, acq, coreVars>>

GuiNext == OnSignalSelected \/ MethodChanged \/ EncryptSignal \/ DecryptSignal

GuiSpec == GuiInit /\ [][GuiNext]_vars

\* the signal shown as selected
SelectedSignal == SignalsData[gui.current_signal_index + 1]

\* C27: whenever decrypted_signal is set, it is the decryption of
\* encrypted_signal under the method and the parameters (r, x0, alpha, eta)
\* that produced encrypted_signal (the ones encrypt_signal kept in
\* encryption_results), and it equals the currently selected signal.
C27_DecryptedIsSelectedSignal ==
    gui.decrypted_signal # None =>
        /\ gui.encrypted_signal # None
        /\ gui.decrypted_signal.value = DecryptWithStored(gui)
        /\ gui.decrypted_signal.value = SelectedSignal

\* C30: decrypt_signal invoked while encrypted_signal is None only shows the
\* warning and leaves encrypted_signal, decrypted_signal and
\* encryption_results as they are; a selection sets the first two to None
\* and the third to {}; encrypted_signal leaves None only in an
\* encrypt_signal step and decrypted_signal is None whenever
\* encrypted_signal is, so after a selection decrypted_signal stays None
\* until an encrypt_signal has completed.
C30_DecryptGuard ==
    /\ [][(DecryptSignal /\ gui.encrypted_signal = None) =>
            /\ gui'.message = "No Encrypted Signal"
            /\ gui'.encrypted_signal = gui.encrypted_signal
            /\ gui'.decrypted_signal = gui.decrypted_signal
            /\ gui'.encryption_results = gui.encryption_results]_vars
    /\ [][OnSignalSelected =>
            /\ gui'.encrypted_signal = None
            /\ gui'.decrypted_signal = None
            /\ gui'.encryption_results = EmptyResults]_vars
    /\ [][(gui.encrypted_signal = None /\ gui'.encrypted_signal # None) =>
            EncryptSignal]_vars
    /\ [](gui.encrypted_signal = None => gui.decrypted_signal = None)

\* C30 witness: a decryption had completed, a selection dropped its result,
\* and decrypt_signal, invoked before any new encryption, has only warned
C30_Witness ==
    /\ "Decryption Complete" \in gui.shown
    /\ gui.message = "No Encrypted Signal"
    /\ gui.encrypted_signal = None
    /\ gui.decrypted_signal = None
    /\ gui.encryption_results = EmptyResults

----------------------------------------------------------------------------
(* Real-time monitoring of ECGEncryptionGUI: ecg_gui_all.py                *)
(* start_monitoring 1179-1193, stop_monitoring 1195-1205, monitoring_loop  *)
(* 1207-1357.  The two handlers run on the Tk main thread, one at a time;  *)
(* every monitoring_loop runs on a thread of its own and the threads share *)
(* running, current_monitoring_signal and signal_index.  A thread's        *)
(* position is the statement it executes next: "while" the test of line    *)
(* 1210, "setup" lines 1212-1245, "draw" the inner loop of line 1248,      *)
(* "next" lines 1350-1354, "done" after the loop.  The plot data the       *)
(* loop fills are not followed.                                            *)

MaxLoops == 2           \* monitoring threads started in one behaviour
PointsPerPass == 20     \* points drawn by one pass of the inner loop

MonInit ==
    /\ CipherIdle
    /\ lm = LmIdle
    /\ lmResults = <<>>
    /\ atk = AtkIdle
    /\ trials = <<>>
    /\ predictor = NoKey
    /\ perm = PermIdle
    /\ ml = MlIdle
    /\ gui = SessionIdle
    /\ acq = AcqIdle
    /\ mon = [running |-> FALSE,
              start_button |-> "normal", stop_button |-> "disabled",
              current_monitoring_signal |-> 0, signal_index |-> 0,
              threads |-> <<>>]

\* start_monitoring, reachable while the start button is enabled
StartMonitoring ==
    /\ mon.start_button = "normal"
    /\ Len(mon.threads) < MaxLoops
    /\ mon' = [mon EXCEPT !.running = TRUE,
                          !.current_monitoring_signal = 0,
                          !.start_button = "disabled",
                          !.stop_button = "normal",
                          !.threads = Append(mon.threads, [pc |-> "while", signal |-> 0])]
    /\ UNCHANGED <<gui, acq, coreVars>>

\* stop_monitoring, reachable while the stop button is enabled
StopMonitoring ==
    /\ mon.stop_button = "normal"
    /\ mon' = [mon EXCEPT !.running = FALSE,
                          !.start_button = "normal",
                          !.stop_button = "disabled"]
    /\ UNCHANGED <<gui, acq, coreVars>>

\* while self.running
MonWhile(t) ==
    /\ mon.threads[t].pc = "while"
    /\ mon' = [mon EXCEPT !.threads[t].pc = IF mon.running THEN "setup" ELSE "done"]
    /\ UNCHANGED <<gui, acq, coreVars>>

\* the signal is fetched and encrypted, signal_index is reset
MonSetup(t) ==
    /\ mon.threads[t].pc = "setup"
    /\ mon' = [mon EXCEPT !.threads[t].signal = mon.current_monitoring_signal,
                          !.threads[t].pc = "draw",
                          !.signal_index = 0]
    /\ UNCHANGED <<gui, acq, coreVars>>

\* while self.signal_index < len(signal) and self.running: one pass, which
\* draws when time_per_point has elapsed and only sleeps otherwise
MonDraw(t) ==
    /\ mon.threads[t].pc = "draw"
    /\ LET n == Len(SignalsData[mon.threads[t].signal + 1])
       IN  IF mon.signal_index < n /\ mon.running
           THEN \E elapsed \in BOOLEAN :
                  mon' = IF elapsed
                         THEN [mon EXCEPT !.signal_index =
                                   mon.signal_index + Min(PointsPerPass, n - mon.signal_index)]
                         ELSE mon
           ELSE mon' = [mon EXCEPT !.threads[t].pc = "next"]
    /\ UNCHANGED <<gui, acq, coreVars>>

\* the next signal is chosen and the thread sleeps for the chosen interval
MonAdvance(t) ==
    /\ mon.threads[t].pc = "next"
    /\ mon' = [mon EXCEPT !.current_monitoring_signal =
                              (mon.current_monitoring_signal + 1) % Len(SignalsData),
                          !.threads[t].pc = "while"]
    /\ UNCHANGED <<gui, acq, coreVars>>

\* one step of a monitoring_loop thread
MonitoringLoop(t) == MonWhile(t) \/ MonSetup(t) \/ MonDraw(t) \/ MonAdvance(t)

MonNext ==
    \/ StartMonitoring
    \/ StopMonitoring
    \/ \E t \in DOMAIN mon.threads : MonitoringLoop(t)

MonSpec == MonInit /\ [][MonNext]_vars

\* the monitoring_loop threads that have not returned
Executing == {t \in DOMAIN mon.threads : mon.threads[t].pc # "done"}

\* C28: across any sequence of start_monitoring and stop_monitoring calls
\* and any interleaving of the threads, at most one monitoring_loop thread
\* is executing at a time.
C28_OneMonitoringLoop == Cardinality(Executing) <= 1

----------------------------------------------------------------------------
(* Acquisition of ECGEncryptionGUI: ecg_gui_all.py                         *)
(* connect_serial 1370-1409, disconnect_serial 1411-1436, serial_read_loop *)
(* 1438-1560, start_test_data 1785-1803, test_data_loop 1805-1903.         *)
(* The handlers run on the Tk main thread; serial_read_loop and            *)
(* test_data_loop run on threads of their own and share the list ecg_data  *)
(* without a lock.  The interpreter switches threads between statements, so *)
(* extend, the length test, the slice self.ecg_data[-3000:] and the slice   *)
(* assignment are separate steps.  Of ecg_data the number of samples is     *)
(* followed, not the samples.                                              *)

MaxAcqThreads == 2      \* acquisition threads started in one behaviour
BufferLimit == 3000     \* samples kept by the trimming
PacketLen == 300        \* samples of one wave packet

AcqInit ==
    /\ CipherIdle
    /\ lm = LmIdle
    /\ lmResults = <<>>
    /\ atk = AtkIdle
    /\ trials = <<>>
    /\ predictor = NoKey
    /\ perm = PermIdle
    /\ ml = MlIdle
    /\ gui = SessionIdle
    /\ mon = MonIdle
    /\ acq = [ecg_data |-> 0,
              serial_running |-> FALSE, port_open |-> FALSE,
              connect_button |-> "normal",
              test_data_running |-> FALSE,
              threads |-> <<>>]

\* connect_serial with a port that opens: the buffer is replaced by an empty
\* list and a serial_read_loop thread is started
ConnectSerial ==
    /\ acq.connect_button = "normal"
    /\ Len(acq.threads) < MaxAcqThreads
    /\ acq' = [acq EXCEPT !.port_open = TRUE,
                          !.serial_running = TRUE,
                          !.connect_button = "disabled",
                          !.ecg_data = 0,
                          !.threads = Append(acq.threads,
                                             [loop |-> "serial", pc |-> "while", tail |-> 0])]
    /\ UNCHANGED <<gui, mon, coreVars>>

\* disconnect_serial: the flag is cleared, the thread is waited for during
\* one second at most, the port is closed
DisconnectSerial ==
    /\ acq.connect_button = "disabled"
    /\ acq' = [acq EXCEPT !.serial_running = FALSE,
                          !.port_open = FALSE,
                          !.connect_button = "normal"]
    /\ UNCHANGED <<gui, mon, coreVars>>

\* start_test_data: the button starts a test_data_loop thread, or clears the
\* flag of the running one
StartTestData ==
    /\ IF ~acq.test_data_running
       THEN /\ Len(acq.threads) < MaxAcqThreads
            /\ acq' = [acq EXCEPT !.test_data_running = TRUE,
                                  !.threads = Append(acq.threads,
                                                     [loop |-> "test", pc |-> "while", tail |-> 0])]
       ELSE acq' = [acq EXCEPT !.test_data_running = FALSE]
    /\ UNCHANGED <<gui, mon, coreVars>>

\* the loop test: while self.serial_running and self.serial_port and
\* self.serial_port.is_open, and while self.test_data_running.  The serial
\* loop then finds a 0xF8 marker followed by 300 bytes, or nothing to
\* append; the test loop builds a packet in every pass.
AcqWhile(t) ==
    /\ acq.threads[t].pc = "while"
    /\ LET th == acq.threads[t]
           go == IF th.loop = "serial"
                 THEN acq.serial_running /\ acq.port_open
                 ELSE acq.test_data_running
       IN  IF go
           THEN \E packet \in (IF th.loop = "serial" THEN BOOLEAN ELSE {TRUE}) :
                  acq' = IF packet
                         THEN [acq EXCEPT !.threads[t].pc = "extend"]
                         ELSE acq
           ELSE acq' = [acq EXCEPT !.threads[t].pc = "done"]
    /\ UNCHANGED <<gui, mon, coreVars>>

\* self.ecg_data.extend(wave_list)
AcqExtend(t) ==
    /\ acq.threads[t].pc = "extend"
    /\ acq' = [acq EXCEPT !.ecg_data = acq.ecg_data + PacketLen,
                          !.threads[t].pc = "test"]
    /\ UNCHANGED <<gui, mon, coreVars>>

\* if len(self.ecg_data) > 3000
AcqTest(t) ==
    /\ acq.threads[t].pc = "test"
    /\ acq' = [acq EXCEPT !.threads[t].pc =
                   IF acq.ecg_data > BufferLimit THEN "slice" ELSE "handled"]
    /\ UNCHANGED <<gui, mon, coreVars>>

\* the right-hand side self.ecg_data[-3000:]
AcqSlice(t) ==
    /\ acq.threads[t].pc = "slice"
    /\ acq' = [acq EXCEPT !.threads[t].tail = Min(acq.ecg_data, BufferLimit),
                          !.threads[t].pc = "assign"]
    /\ UNCHANGED <<gui, mon, coreVars>>

\* self.ecg_data[:] = the slice
AcqAssign(t) ==
    /\ acq.threads[t].pc = "assign"
    /\ acq' = [acq EXCEPT !.ecg_data = acq.threads[t].tail,
                          !.threads[t].tail = 0,
                          !.threads[t].pc = "handled"]
    /\ UNCHANGED <<gui, mon, coreVars>>

\* the window is encrypted, the log and the plot are updated, the thread sleeps
AcqHandled(t) ==
    /\ acq.threads[t].pc = "handled"
    /\ acq' = [acq EXCEPT !.threads[t].pc = "while"]
    /\ UNCHANGED <<gui, mon, coreVars>>

\* one step of a serial_read_loop or test_data_loop thread
AcqLoop(t) ==
    \/ AcqWhile(t) \/ AcqExtend(t) \/ AcqTest(t)
    \/ AcqSlice(t) \/ AcqAssign(t) \/ AcqHandled(t)

AcqNext ==
    \/ ConnectSerial
    \/ DisconnectSerial
    \/ StartTestData
    \/ \E t \in DOMAIN acq.threads : AcqLoop(t)

AcqSpec == AcqInit /\ [][AcqNext]_vars

\* no thread is between appending a packet and the end of its trimming
PacketsHandled ==
    \A t \in DOMAIN acq.threads : acq.threads[t].pc \notin {"test", "slice", "assign"}

\* C29: ecg_data is bounded in every interleaving of serial_read_loop and
\* test_data_loop: it never holds more than 3300 samples, and at most 3000
\* once the packets appended have been handled.
C29_BufferBounded ==
    /\ acq.ecg_data <= BufferLimit + PacketLen
    /\ PacketsHandled => acq.ecg_data <= BufferLimit

============================================================================
